---- MODULE Spec2Model ----
(***************************************************************************)
(* Model of the vote manager of adventure-voter                            *)
(* (src/backend/server/votes.go): the voting session controller, its       *)
(* tally store, the deadline timer and the broadcast hub (VoteManager.Run),*)
(* and of the presenter's navigation handlers of the server                *)
(* (src/backend/main.go) on the story graph (src/backend/parser/story.go). *)
(*                                                                         *)
(* Every handler of VoteManager runs under vm.mu.  A handler is one action *)
(* from Lock to Unlock, except where it can block while it holds the lock: *)
(* the send on the bounded broadcast channel.  A handler that finds the    *)
(* channel full stays in `blocked` (lock held, message pending) until      *)
(* SendUnblock.                                                            *)
(***************************************************************************)
EXTENDS Integers, Sequences, FiniteSets, TLC

\* ------------------------------------------------------------- bounds
\* number of voting sessions that may be started in one run
MaxGen == 2
\* capacity of the broadcast channel (256 in NewVoteManager, scaled down)
QueueCap == 1
\* number of events that are enqueued while the enqueue order is recorded
MaxMsgs == 3
\* length the presenter's history may reach
MaxHist == 2

Voters == {"v1", "v2"}
Questions == {"q1"}
\* keys a client may send as choice_id; "z" is never registered as an option
ChoiceKeys == {"a", "b", "z"}
\* option lists a session may be started with (choiceIDs)
OptionLists == {<<"a", "b">>}
Clients == {"c1", "c2"}

Gens == 1..MaxGen

VARIABLES
    \* VoteManager fields
    currentQuestion, votes, voters, votingActive, onVoteComplete, timer,
    clients, broadcast,
    \* goroutines
    callbacks,      \* deadline callbacks that have fired and wait for vm.mu
    blocked,        \* the handler that holds vm.mu, blocked on a full channel
    hubPc, hubClient, hubMsg, hubTodo, hubDelivered,
    broken,         \* connections whose write side has failed (the error sticks)
    \* Server fields and the presenter handler that holds s.mu
    currentNode, history,
    presenterSecret,    \* "" when no secret is configured
    engine,             \* the StoryEngine: its chapter cache and the GetChapter
                        \* calls that are under way
    srvPc,          \* "idle", "vm" (blocked inside a vote manager call), "bcast"
    srvMsg,         \* the event the handler passes to BroadcastMessage next
    \* history variables
    srvLast,        \* the presenter handler that ran last and its outcome
    srvEnq,         \* the events that handler has enqueued so far
    advancedFrom,   \* the position the last successful advance left, while
                    \* nothing but the go-back after it has been served
    seqNo,          \* number the next enqueued event gets; 0: order not recorded
    startedEnq,     \* sessions whose voting_started has been enqueued
    recvLog,        \* per connection: the messages received, while recorded
    gen,            \* number of sessions started so far; the current session
    options,        \* choiceIDs the current session was started with
    endLog,         \* per session: who ended it (0 explicit call, g timer of g)
    invoked,        \* per session: completion callbacks started
    cbLog,          \* per session: the arguments of those callbacks, while recorded
    \* callers of the vote manager
    voting,         \* the SubmitVote that holds vm.mu between its two map updates
    snap,           \* the map the last GetResults call has returned to its caller
    lastOp          \* the handler that ran last and the branch it took

\* timer is "nil" (vm.timer == nil), "armed", or "done" (stopped or fired).
\* onVoteComplete is 0 (nil) or the session whose callback is registered.

vmVars == <<currentQuestion, votes, voters, votingActive, onVoteComplete, timer>>
hubVars == <<hubPc, hubClient, hubMsg, hubTodo, hubDelivered, broken, recvLog>>
callerVars == <<voting, snap>>
srvVars == <<currentNode, history, srvPc, srvMsg, srvLast, srvEnq, advancedFrom>>
histVars == <<gen, options, endLog, invoked, cbLog, lastOp, seqNo, startedEnq>>
vars == <<currentQuestion, votes, voters, votingActive, onVoteComplete, timer,
          clients, broadcast, callbacks, blocked,
          hubPc, hubClient, hubMsg, hubTodo, hubDelivered, broken,
          currentNode, history, srvPc, srvMsg, srvLast, srvEnq, advancedFrom,
          seqNo, startedEnq, recvLog,
          gen, options, endLog, invoked, cbLog, lastOp, voting, snap,
          presenterSecret, engine>>

\* ------------------------------------------------------------- Go maps
EmptyMap == [k \in {} |-> 0]
\* m[k] with Go's zero value for a missing key
MapGet(m, k) == IF k \in DOMAIN m THEN m[k] ELSE 0
MapSet(m, k, v) == [x \in (DOMAIN m) \cup {k} |-> IF x = k THEN v ELSE m[x]]
MapDelete(m, k) == [x \in (DOMAIN m) \ {k} |-> m[x]]
ZeroMap(keys) == [k \in keys |-> 0]
Range(s) == {s[i] : i \in 1..Len(s)}

RECURSIVE SumOver(_, _)
SumOver(m, keys) ==
    IF keys = {} THEN 0
    ELSE LET k == CHOOSE x \in keys : TRUE IN m[k] + SumOver(m, keys \ {k})
MapSum(m) == SumOver(m, DOMAIN m)

\* the orders in which a Go `range` may visit the keys of a map
RECURSIVE Perms(_)
Perms(S) ==
    IF S = {} THEN {<<>>}
    ELSE UNION {{<<x>> \o p : p \in Perms(S \ {x})} : x \in S}

\* vm.votes[q], nil when the question has no entry
VotesOf(vs, q) == IF q \in DOMAIN vs THEN vs[q] ELSE EmptyMap

Op(name, outcome) == [op |-> name, outcome |-> outcome]

\* ------------------------------------------------------------- story graph
\* the story the server is started with: an opening chapter, a decision with two
\* choices, a chapter without `next`, and a chapter whose `next` names a node for
\* which no chapter file exists
StartNode == "intro"
Story ==
    [intro |-> [type |-> "story", next |-> "q1", choices |-> <<>>],
     q1    |-> [type |-> "decision", next |-> "",
                choices |-> <<[id |-> "a", next |-> "pa"],
                              [id |-> "b", next |-> "pb"]>>],
     pa    |-> [type |-> "story", next |-> "", choices |-> <<>>],
     pb    |-> [type |-> "story", next |-> "gone", choices |-> <<>>]]
\* choice_id values the presenter may send with an advance request
AdvanceKeys == {"", "a", "b", "z"}

\* node ids a caller may ask for: those of the story and one that is no node
NodeIDs == (DOMAIN Story) \cup {"gone"}

\* the id of the chapter, or "" for (nil, err): the node is not in Story.Nodes
GetChapter(nodeID) == IF nodeID \in DOMAIN Story THEN nodeID ELSE ""

GetNextChapter(currentNodeID) ==
    IF GetChapter(currentNodeID) = "" THEN ""
    ELSE IF Story[currentNodeID].next = "" THEN ""
    ELSE GetChapter(Story[currentNodeID].next)

\* faulty variant: the first choice of the chapter is taken, whatever its id
GetChapterByChoice_FirstChoice(currentNodeID, choiceID) ==
    IF GetChapter(currentNodeID) = "" THEN ""
    ELSE LET cs == Story[currentNodeID].choices
         IN IF cs = <<>> THEN "" ELSE GetChapter(cs[1].next)

\* ValidateStory: one error if the start node is missing and one for each node
\* whose chapter file could not be read; `loaded` are the nodes it could read
ValidateStory(story, start, loaded) ==
    (IF start \in DOMAIN story THEN {} ELSE {<<"start node not found", start>>})
    \cup {<<"file not found for node", n>> : n \in (DOMAIN story) \ loaded}

\* the first choice of the chapter whose id is choiceID decides
GetChapterByChoice(currentNodeID, choiceID) ==
    IF GetChapter(currentNodeID) = "" THEN ""
    ELSE LET cs == Story[currentNodeID].choices
             idx == {i \in 1..Len(cs) : cs[i].id = choiceID}
         IN IF idx = {} THEN ""
            ELSE GetChapter(cs[CHOOSE i \in idx : \A j \in idx : i <= j].next)

\* goroutines that call GetChapter, and a goroutine outside any call
Callers == {"g1", "g2"}
Idle == [pc |-> "idle", node |-> ""]

\* ------------------------------------------------------------- state
InitEngine(firstSeq, secret, loaded) ==
    /\ presenterSecret = secret
    /\ engine = [chapters |-> loaded, calls |-> [g \in Callers |-> Idle],
                 crashed |-> FALSE]
    /\ currentQuestion = ""
    /\ votes = EmptyMap
    /\ voters = EmptyMap
    /\ votingActive = FALSE
    /\ onVoteComplete = 0
    /\ timer = "nil"
    /\ clients = {}
    /\ broadcast = <<>>
    /\ callbacks = {}
    /\ blocked = <<>>
    /\ hubPc = "select"
    /\ hubClient = ""
    /\ hubMsg = <<>>
    /\ hubTodo = {}
    /\ hubDelivered = {}
    /\ broken = {}
    /\ currentNode = StartNode
    /\ history = <<>>
    /\ srvPc = "idle"
    /\ srvMsg = <<>>
    /\ srvLast = Op("init", "")
    /\ srvEnq = <<>>
    /\ advancedFrom = <<>>
    /\ seqNo = firstSeq
    /\ startedEnq = {}
    /\ recvLog = [c \in Clients |-> <<>>]
    /\ gen = 0
    /\ options = <<>>
    /\ endLog = [g \in Gens |-> <<>>]
    /\ invoked = [g \in Gens |-> 0]
    /\ cbLog = [g \in Gens |-> <<>>]
    /\ voting = <<>>
    /\ snap = <<>>
    /\ lastOp = Op("init", "")

\* NewVoteManager and NewServer have run; the enqueue order is not recorded
\* NewServer: ValidateStory has called GetChapter for every node, so the
\* chapter cache holds every chapter whose file could be read
InitServer(firstSeq, secret) == InitEngine(firstSeq, secret, DOMAIN Story)

\* a server started without -presenter-secret
InitState(firstSeq) == InitServer(firstSeq, "")

Init == InitState(0)
\* the same state, with the events numbered in the order they are enqueued
InitRecording == InitState(1)

\* vm.mu is free: no handler sits inside its critical section, blocked on the
\* channel or between the two map updates of a vote
MuReadable == blocked = <<>> /\ voting = <<>>
\* ... and no goroutine holds its read lock either
MuFree == MuReadable /\ hubPc # "writeState"

\* ------------------------------------------------------------- channel send
\* what a sender does once its message is in the channel.  EndVoting starts the
\* completion callback (`go vm.onVoteComplete(...)`); then the deferred Unlock runs.
AfterSend(post) ==
    IF post = <<>>
    THEN UNCHANGED <<endLog, invoked, cbLog>>
    ELSE /\ endLog' = [endLog EXCEPT ![post[1].gen] = Append(@, post[1].ender)]
         /\ invoked' = IF post[1].cb # 0
                        THEN [invoked EXCEPT ![post[1].cb] = @ + 1]
                        ELSE invoked
         /\ cbLog' = IF post[1].cb # 0 /\ seqNo > 0
                      THEN [cbLog EXCEPT ![post[1].cb] = Append(@, post[1].args)]
                      ELSE cbLog

\* the message as it sits in the channel, with its enqueue number
Stamp(msg) ==
    [f \in (DOMAIN msg) \cup {"seq"} |-> IF f = "seq" THEN seqNo ELSE msg[f]]

\* the message enters the channel; g is the session a voting_started opens
Enqueue(msg, g) ==
    /\ seqNo <= MaxMsgs
    /\ broadcast' = Append(broadcast, Stamp(msg))
    /\ seqNo' = IF seqNo = 0 THEN 0 ELSE seqNo + 1
    /\ startedEnq' = IF msg.type = "voting_started"
                      THEN startedEnq \cup {g} ELSE startedEnq

\* `vm.broadcast <- msg` inside a handler that holds vm.mu
Send(msg, post) ==
    IF Len(broadcast) < QueueCap
    THEN /\ Enqueue(msg, gen + 1)
         /\ blocked' = <<>>
         /\ AfterSend(post)
    ELSE /\ blocked' = <<[msg |-> msg, post |-> post]>>
         /\ UNCHANGED <<broadcast, endLog, invoked, cbLog, seqNo, startedEnq>>

\* the blocked handler's send completes when the hub has made room
SendUnblock ==
    /\ blocked # <<>>
    /\ Len(broadcast) < QueueCap
    /\ Enqueue(blocked[1].msg, gen)
    /\ blocked' = <<>>
    /\ AfterSend(blocked[1].post)
    /\ srvPc' = IF srvPc = "vm" THEN "bcast" ELSE srvPc
    /\ srvEnq' = IF srvPc = "vm" THEN Append(srvEnq, blocked[1].msg) ELSE srvEnq
    /\ UNCHANGED <<vmVars, clients, callbacks, hubVars, presenterSecret, engine, callerVars, gen, options, lastOp,
                   currentNode, history, srvMsg, srvLast, advancedFrom>>

\* timer.Stop(): an armed timer never fires; a fired or stopped one is left as it is
StopTimer(t) == IF t = "armed" THEN "done" ELSE t

\* ------------------------------------------------------------- StartVoting
\* faulty variant: a question that already has a tally keeps it
StartVotingWithChoices_KeepCounts(questionID, choiceIDs) ==
    /\ MuFree
    /\ gen < MaxGen
    /\ gen' = gen + 1
    /\ currentQuestion' = questionID
    /\ voters' = EmptyMap
    /\ votingActive' = TRUE
    /\ onVoteComplete' = gen + 1
    /\ votes' = IF questionID \in DOMAIN votes THEN votes
                 ELSE MapSet(votes, questionID, ZeroMap(Range(choiceIDs)))
    /\ timer' = "armed"
    /\ options' = choiceIDs
    /\ Send([type |-> "voting_started", question_id |-> questionID,
             choices |-> choiceIDs], <<>>)
    /\ lastOp' = Op("StartVoting", "started")
    /\ UNCHANGED <<clients, callbacks, hubVars, presenterSecret, engine, callerVars, srvVars>>

\* faulty variant: the voters of the session before stay recorded
StartVoters_Keep(vrs) == vrs

\* line 103: vm.voters = make(map[string]string)
StartVoters(vrs) == EmptyMap

\* faulty variant: the start replaces the whole store by the new tally
StartTallies_FreshStore(vs, questionID, choiceIDs) ==
    MapSet(EmptyMap, questionID, ZeroMap(Range(choiceIDs)))

\* lines 108-111: vm.votes[questionID] = make(map[string]int), then a zero
\* for every choice; the tallies of the other questions stay in the store
StartTallies(vs, questionID, choiceIDs) ==
    MapSet(vs, questionID, ZeroMap(Range(choiceIDs)))

\* faulty variant: a session started over an active one keeps the old callback
StartVotingWithChoices_KeepCallback(questionID, choiceIDs) ==
    /\ MuFree
    /\ gen < MaxGen
    /\ gen' = gen + 1
    /\ currentQuestion' = questionID
    /\ voters' = EmptyMap
    /\ votingActive' = TRUE
    /\ onVoteComplete' = IF votingActive THEN onVoteComplete ELSE gen + 1
    /\ votes' = MapSet(votes, questionID, ZeroMap(Range(choiceIDs)))
    /\ timer' = "armed"
    /\ options' = choiceIDs
    /\ Send([type |-> "voting_started", question_id |-> questionID,
             choices |-> choiceIDs], <<>>)
    /\ lastOp' = Op("StartVoting", "started")
    /\ UNCHANGED <<clients, callbacks, hubVars, presenterSecret, engine, callerVars, srvVars>>

StartVotingWithChoices(questionID, choiceIDs) ==
    /\ MuFree
    /\ gen < MaxGen
    /\ gen' = gen + 1
    /\ currentQuestion' = questionID
    /\ voters' = StartVoters(voters)
    /\ votingActive' = TRUE
    /\ onVoteComplete' = gen + 1
    /\ votes' = StartTallies(votes, questionID, choiceIDs)
    /\ timer' = "armed"
    /\ options' = choiceIDs
    /\ Send([type |-> "voting_started", question_id |-> questionID,
             choices |-> choiceIDs], <<>>)
    /\ lastOp' = Op("StartVoting", "started")
    /\ UNCHANGED <<clients, callbacks, hubVars, presenterSecret, engine, callerVars, srvVars>>

\* the runtime fires the deadline timer: a goroutine is started that calls EndVoting
TimerFire ==
    /\ timer = "armed"
    /\ timer' = "done"
    /\ callbacks' = callbacks \cup {gen}
    /\ UNCHANGED <<currentQuestion, votes, voters, votingActive, onVoteComplete,
                   clients, broadcast, blocked, hubVars, presenterSecret, engine, callerVars, srvVars, histVars>>

\* ------------------------------------------------------------- SubmitVote
\* faulty variant: the previous choice of a re-voting voter is not decremented
ApplyVote_NoDecrement(vs, vrs, cur, voterID, choiceID) ==
    MapSet(VotesOf(vs, cur), choiceID, MapGet(VotesOf(vs, cur), choiceID) + 1)

\* faulty variant: a vote for the option the voter already has is counted again
ApplyVote_RepeatCounts(vs, vrs, cur, voterID, choiceID) ==
    LET m0 == VotesOf(vs, cur)
        m1 == IF voterID \in DOMAIN vrs /\ cur \in DOMAIN vs /\ vrs[voterID] # choiceID
              THEN MapSet(m0, vrs[voterID], MapGet(m0, vrs[voterID]) - 1)
              ELSE m0
    IN MapSet(m1, choiceID, MapGet(m1, choiceID) + 1)

\* lines 151-162: the tally of the current question after the vote
ApplyVote(vs, vrs, cur, voterID, choiceID) ==
    LET m0 == VotesOf(vs, cur)
        m1 == IF voterID \in DOMAIN vrs /\ cur \in DOMAIN vs
              THEN MapSet(m0, vrs[voterID], MapGet(m0, vrs[voterID]) - 1)
              ELSE m0
    IN MapSet(m1, choiceID, MapGet(m1, choiceID) + 1)

VoteKind(vrs, voterID, choiceID) ==
    IF voterID \notin DOMAIN vrs THEN "new"
    ELSE IF vrs[voterID] = choiceID THEN "same" ELSE "change"

\* faulty variant: the voter's choice is not recorded
RecordVoter_Forget(vrs, voterID, choiceID) == vrs

\* line 157: vm.voters[voterID] = choiceID
RecordVoter(vrs, voterID, choiceID) == MapSet(vrs, voterID, choiceID)

\* lines 147-149: voting is not active, SubmitVote returns nil at once
\* faulty variant: a vote outside a session still broadcasts the stored tally
SubmitIdle_Broadcasts ==
    /\ Send([type |-> "vote_update", question_id |-> currentQuestion,
             results |-> VotesOf(votes, currentQuestion),
             total |-> Cardinality(DOMAIN voters)], <<>>)
    /\ lastOp' = Op("SubmitVote", "idle")
    /\ UNCHANGED <<vmVars, clients, callbacks, hubVars, presenterSecret, engine, callerVars,
                   srvVars, gen, options>>

SubmitIdle ==
    /\ lastOp' = Op("SubmitVote", "idle")
    /\ UNCHANGED <<vmVars, clients, broadcast, callbacks, blocked, hubVars, presenterSecret, engine, callerVars,
                   srvVars, gen, options, endLog, invoked, cbLog, seqNo,
                   startedEnq>>

\* lines 151-166: the vote is counted and broadcastResults enqueues a vote_update
SubmitActive(voterID, choiceID) ==
    /\ votes' = MapSet(votes, currentQuestion,
                       ApplyVote(votes, voters, currentQuestion, voterID, choiceID))
    /\ voters' = RecordVoter(voters, voterID, choiceID)
    /\ Send([type |-> "vote_update", question_id |-> currentQuestion,
             results |-> votes'[currentQuestion],
             total |-> Cardinality(DOMAIN voters')], <<>>)
    /\ lastOp' = Op("SubmitVote", VoteKind(voters, voterID, choiceID))
    /\ UNCHANGED <<currentQuestion, votingActive, onVoteComplete, timer,
                   clients, callbacks, hubVars, presenterSecret, engine, callerVars, srvVars, gen, options>>

\* faulty variant: the votingActive check of SubmitVote is missing
SubmitVote_NoActiveCheck(voterID, choiceID) ==
    /\ MuFree
    /\ SubmitActive(voterID, choiceID)

\* lines 151-155: the previous choice of a voter who has voted loses one count
DecrementPrevious(vs, vrs, cur, voterID) ==
    IF voterID \in DOMAIN vrs /\ cur \in DOMAIN vs
    THEN MapSet(vs, cur, MapSet(vs[cur], vrs[voterID], MapGet(vs[cur], vrs[voterID]) - 1))
    ELSE vs

\* lines 158-162: the chosen option gains one count
IncrementChoice(vs, cur, choiceID) ==
    MapSet(vs, cur, MapSet(VotesOf(vs, cur), choiceID,
                           MapGet(VotesOf(vs, cur), choiceID) + 1))

\* SubmitVote of an active session in two steps, vm.mu held in between: first
\* the decrement and the voter record (lines 151-157) ...
VoteBegin(voterID, choiceID) ==
    /\ MuFree
    /\ votingActive
    /\ votes' = DecrementPrevious(votes, voters, currentQuestion, voterID)
    /\ voters' = RecordVoter(voters, voterID, choiceID)
    /\ voting' = <<[voter |-> voterID, choice |-> choiceID,
                    kind |-> VoteKind(voters, voterID, choiceID)]>>
    /\ UNCHANGED <<currentQuestion, votingActive, onVoteComplete, timer, clients,
                   broadcast, callbacks, blocked, hubVars, presenterSecret, engine, srvVars, histVars, snap>>

\* ... then the increment and broadcastResults (lines 158-166)
VoteFinish ==
    /\ voting # <<>>
    /\ votes' = IncrementChoice(votes, currentQuestion, voting[1].choice)
    /\ Send([type |-> "vote_update", question_id |-> currentQuestion,
             results |-> votes'[currentQuestion],
             total |-> Cardinality(DOMAIN voters)], <<>>)
    /\ voting' = <<>>
    /\ lastOp' = Op("SubmitVote", voting[1].kind)
    /\ UNCHANGED <<currentQuestion, voters, votingActive, onVoteComplete, timer,
                   clients, callbacks, hubVars, presenterSecret, engine, srvVars, gen, options, snap>>

\* faulty variant: SubmitVote does not take vm.mu
SubmitVote_NoLock(voterID, choiceID) ==
    IF ~votingActive THEN SubmitIdle ELSE SubmitActive(voterID, choiceID)

SubmitVote(voterID, choiceID) ==
    /\ MuFree
    /\ IF ~votingActive THEN SubmitIdle ELSE SubmitActive(voterID, choiceID)

\* ------------------------------------------------------------- HandleVoteMessage
\* the bytes a client sends: `valid` tells whether they are JSON that fits
\* VoteMessage; the fields are what the JSON carries
InboundKeys == {"a", "b"}
Inbound ==
    [valid : BOOLEAN, type : {"vote", "other"}, voter_id : Voters,
     choice_id : InboundKeys]

\* json.Unmarshal(data, &msg): an error, or the VoteMessage with the fields
Unmarshal(data) ==
    IF data.valid
    THEN [err |-> FALSE,
          msg |-> [Type |-> data.type, VoterID |-> data.voter_id,
                   ChoiceID |-> data.choice_id]]
    ELSE [err |-> TRUE, msg |-> [Type |-> "", VoterID |-> "", ChoiceID |-> ""]]

\* HandleVoteMessage returns without calling the manager
HandleReturn(result) ==
    /\ lastOp' = Op("HandleVoteMessage", result)
    /\ UNCHANGED <<vmVars, clients, broadcast, callbacks, blocked, hubVars, presenterSecret, engine, callerVars,
                   srvVars, gen, options, endLog, invoked, cbLog, seqNo,
                   startedEnq>>

\* faulty variant: every message that parses is taken for a vote
HandleVoteMessage_AnyType(data) ==
    LET r == Unmarshal(data)
    IN IF r.err THEN HandleReturn("error")
       ELSE SubmitVote(r.msg.VoterID, r.msg.ChoiceID)

HandleVoteMessage(data) ==
    LET r == Unmarshal(data)
    IN IF r.err THEN HandleReturn("error")
       ELSE IF r.msg.Type = "vote"
            THEN SubmitVote(r.msg.VoterID, r.msg.ChoiceID)
            ELSE HandleReturn("nil")

\* ------------------------------------------------------------- EndVoting
\* the `for choiceID, count := range results` loop, visiting the keys in `order`
RECURSIVE winnerLoop(_, _, _, _, _)
winnerLoop(results, order, i, maxVotes, winner) ==
    IF i > Len(order) THEN winner
    ELSE IF results[order[i]] > maxVotes
         THEN winnerLoop(results, order, i + 1, results[order[i]], order[i])
         ELSE winnerLoop(results, order, i + 1, maxVotes, winner)

\* faulty variant: the loop compares with >= instead of >
RECURSIVE winnerLoopGe(_, _, _, _, _)
winnerLoopGe(results, order, i, maxVotes, winner) ==
    IF i > Len(order) THEN winner
    ELSE IF results[order[i]] >= maxVotes
         THEN winnerLoopGe(results, order, i + 1, results[order[i]], order[i])
         ELSE winnerLoopGe(results, order, i + 1, maxVotes, winner)

determineWinner_GreaterEq(results, order) == winnerLoopGe(results, order, 1, 0, "")

determineWinner(results, order) == winnerLoop(results, order, 1, 0, "")

\* lines 174-176: voting is not active, EndVoting returns at once
EndNoop(opname) ==
    /\ lastOp' = Op(opname, "noop")
    /\ UNCHANGED <<vmVars, broadcast, blocked, gen, options, endLog, invoked, cbLog,
                   seqNo, startedEnq>>

\* faulty variant: the callback is handed an empty map instead of the counts
CallbackArgs_Empty(results, winner) == [results |-> EmptyMap, winner |-> winner]

\* line 197: go vm.onVoteComplete(results, winner)
CallbackArgs(results, winner) == [results |-> results, winner |-> winner]

\* lines 178-198: the session ends, voting_ended is sent and the completion
\* callback is started
EndActive(caller, opname) ==
    \E order \in Perms(DOMAIN VotesOf(votes, currentQuestion)) :
      LET results == VotesOf(votes, currentQuestion)
          winner == determineWinner(results, order)
      IN /\ votingActive' = FALSE
         /\ timer' = StopTimer(timer)
         /\ Send([type |-> "voting_ended", question_id |-> currentQuestion,
                  results |-> results, winner |-> winner],
                 <<[gen |-> gen, ender |-> caller, cb |-> onVoteComplete,
                    args |-> CallbackArgs(results, winner)]>>)
         /\ lastOp' = Op(opname, "ended")
         /\ UNCHANGED <<currentQuestion, votes, voters, onVoteComplete, gen, options>>

\* faulty variant: the votingActive check of EndVoting is missing
EndVotingBy_NoActiveCheck(caller, opname) ==
    /\ MuFree
    /\ gen > 0
    /\ EndActive(caller, opname)

\* EndVoting as run by `caller`: 0 is an explicit call, g the deadline callback
\* of the timer that session g scheduled
EndVotingBy(caller, opname) ==
    /\ MuFree
    /\ IF ~votingActive THEN EndNoop(opname) ELSE EndActive(caller, opname)

\* an explicit EndVoting call
EndVoting ==
    /\ EndVotingBy(0, "EndVoting")
    /\ UNCHANGED <<clients, callbacks, hubVars, presenterSecret, engine, callerVars, srvVars>>

\* the deadline callback of session g's timer gets to run: func() { vm.EndVoting() }
TimerEndVoting(g) ==
    /\ g \in callbacks
    /\ EndVotingBy(g, "TimerEndVoting")
    /\ callbacks' = callbacks \ {g}
    /\ UNCHANGED <<clients, hubVars, presenterSecret, engine, callerVars, srvVars>>

\* ------------------------------------------------------------- reset / clear
\* the outcome the history records: the call found a session active or not
ResetKind == IF votingActive THEN "interrupted" ELSE "reset"

\* faulty variant: the reset keeps the voter records
VmResetVoting_KeepVoters ==
    /\ MuFree
    /\ timer' = "nil"
    /\ votingActive' = FALSE
    /\ currentQuestion' = ""
    /\ votes' = EmptyMap
    /\ onVoteComplete' = 0
    /\ Send([type |-> "voting_reset", status |-> "reset"], <<>>)
    /\ lastOp' = Op("ResetVoting", ResetKind)
    /\ UNCHANGED <<voters, clients, callbacks, hubVars, presenterSecret, engine, callerVars, gen, options>>

\* faulty variant: the reset leaves the session active
VmResetVoting_StaysActive ==
    /\ MuFree
    /\ timer' = "nil"
    /\ currentQuestion' = ""
    /\ voters' = EmptyMap
    /\ votes' = EmptyMap
    /\ Send([type |-> "voting_reset", status |-> "reset"], <<>>)
    /\ lastOp' = Op("ResetVoting", ResetKind)
    /\ UNCHANGED <<votingActive, onVoteComplete, clients, callbacks, hubVars, presenterSecret, engine, callerVars,
                   gen, options>>

\* faulty variant: the reset keeps the tallies
VmResetVoting_KeepTallies ==
    /\ MuFree
    /\ timer' = "nil"
    /\ votingActive' = FALSE
    /\ currentQuestion' = ""
    /\ voters' = EmptyMap
    /\ onVoteComplete' = 0
    /\ Send([type |-> "voting_reset", status |-> "reset"], <<>>)
    /\ lastOp' = Op("ResetVoting", ResetKind)
    /\ UNCHANGED <<votes, clients, callbacks, hubVars, presenterSecret, engine, callerVars, gen, options>>

\* vm.ResetVoting(), from Lock to the deferred Unlock
VmResetVoting ==
    /\ MuFree
    /\ timer' = "nil"
    /\ votingActive' = FALSE
    /\ currentQuestion' = ""
    /\ voters' = EmptyMap
    /\ votes' = EmptyMap
    /\ onVoteComplete' = 0
    /\ Send([type |-> "voting_reset", status |-> "reset"], <<>>)
    /\ lastOp' = Op("ResetVoting", ResetKind)
    /\ UNCHANGED <<clients, callbacks, hubVars, presenterSecret, engine, callerVars, gen, options>>

\* faulty variant: the clear drops the tallies of every question
VmClearQuestionVotes_All(questionID) ==
    /\ MuFree
    /\ timer' = "nil"
    /\ votingActive' = FALSE
    /\ currentQuestion' = ""
    /\ voters' = EmptyMap
    /\ votes' = EmptyMap
    /\ onVoteComplete' = 0
    /\ Send([type |-> "voting_reset", status |-> "reset"], <<>>)
    /\ lastOp' = Op("ClearQuestionVotes", ResetKind)
    /\ UNCHANGED <<clients, callbacks, hubVars, presenterSecret, engine, callerVars, gen, options>>

\* vm.ClearQuestionVotes(questionID), from Lock to the deferred Unlock
VmClearQuestionVotes(questionID) ==
    /\ MuFree
    /\ timer' = "nil"
    /\ votingActive' = FALSE
    /\ currentQuestion' = ""
    /\ voters' = EmptyMap
    /\ votes' = IF questionID # "" THEN MapDelete(votes, questionID) ELSE votes
    /\ onVoteComplete' = 0
    /\ Send([type |-> "voting_reset", status |-> "reset"], <<>>)
    /\ lastOp' = Op("ClearQuestionVotes", ResetKind)
    /\ UNCHANGED <<clients, callbacks, hubVars, presenterSecret, engine, callerVars, gen, options>>

\* the two calls made on the vote manager alone
ResetVoting == VmResetVoting /\ UNCHANGED srvVars

ClearQuestionVotes(questionID) ==
    VmClearQuestionVotes(questionID) /\ UNCHANGED srvVars

\* ------------------------------------------------------------- navigation
\* The presenter handlers of the server.  handleAdvance, handleGoBack and
\* handleRestart hold s.mu from their first statement to their return; srvPc is
\* "idle" while s.mu is free.  They can block in two places: inside the vote
\* manager call they make ("vm", the send of voting_reset) and in
\* BroadcastMessage ("bcast"), which sends on the channel without vm.mu.

\* faulty variant: a presenter handler does not wait for s.mu
SrvMuFree_Always == TRUE

\* s.mu.Lock() returns: no presenter handler is between its Lock and its Unlock
SrvMuFree == srvPc = "idle"

ChapterChanged(id, canGoBack) ==
    [type |-> "chapter_changed", id |-> id, can_go_back |-> canGoBack]

\* faulty variant: the position becomes the key the request names, not the
\* chapter that key resolves to
AdvanceTarget_RequestKey(node, choiceID) ==
    IF choiceID # "" THEN choiceID ELSE GetNextChapter(node)

\* the chapter an advance request resolves to, "" when it fails
AdvanceTarget(node, choiceID) ==
    IF choiceID # "" THEN GetChapterByChoice(node, choiceID)
    ELSE GetNextChapter(node)

\* faulty variant: the advance does not record where it came from
PushHistory_Skip(h, node) == h

\* line 687: s.history = append(s.history, s.currentNode)
PushHistory(h, node) == Append(h, node)

handleAdvance(choiceID) ==
    /\ SrvMuFree
    /\ Len(history) < MaxHist
    /\ history' = PushHistory(history, currentNode)
    /\ LET nextChapter == AdvanceTarget(currentNode, choiceID)
       IN IF nextChapter = ""
          THEN /\ srvLast' = Op("handleAdvance", "error")
               /\ advancedFrom' = <<>>
               /\ UNCHANGED <<currentNode, srvPc, srvMsg>>
          ELSE /\ currentNode' = nextChapter
               /\ srvMsg' = <<ChapterChanged(nextChapter, Len(history') > 0)>>
               /\ srvPc' = "bcast"
               /\ srvLast' = Op("handleAdvance", "ok")
               /\ advancedFrom' = <<[node |-> currentNode, history |-> history]>>
    /\ srvEnq' = <<>>
    /\ UNCHANGED <<vmVars, clients, broadcast, callbacks, blocked, hubVars, presenterSecret, engine, callerVars, histVars>>

\* where the handler stands after its vote manager call, and what that call
\* has put into the channel so far
AfterVmCall(msg) ==
    /\ srvMsg' = <<msg>>
    /\ srvPc' = IF blocked' # <<>> THEN "vm" ELSE "bcast"
    /\ srvEnq' = IF blocked' # <<>> THEN <<>>
                  ELSE <<[type |-> "voting_reset", status |-> "reset"]>>

\* faulty variant: the history keeps its top entry
PopHistory_Keep(h) == h

\* line 809: s.history = s.history[:len(s.history)-1]
PopHistory(h) == SubSeq(h, 1, Len(h) - 1)

\* faulty variant: the early return clears the votes of the current chapter
GoBackNoHistory_Clears ==
    /\ srvLast' = Op("handleGoBack", "no history")
    /\ srvEnq' = <<>>
    /\ advancedFrom' = <<>>
    /\ VmClearQuestionVotes(currentNode)
    /\ UNCHANGED <<currentNode, history, srvPc, srvMsg>>

\* lines 801-805: 400 "no history to go back to"
GoBackNoHistory ==
    /\ srvLast' = Op("handleGoBack", "no history")
    /\ srvEnq' = <<>>
    /\ advancedFrom' = <<>>
    /\ UNCHANGED <<vmVars, clients, broadcast, callbacks, blocked, hubVars, presenterSecret, engine, callerVars,
                   histVars, currentNode, history, srvPc, srvMsg>>

\* faulty variant: the go-back returns to the oldest entry of the history
PreviousNode_Oldest(h) == h[1]

\* line 808: previousNode := s.history[len(s.history)-1]
PreviousNode(h) == h[Len(h)]

handleGoBack ==
    /\ SrvMuFree
    /\ IF Len(history) = 0
       THEN GoBackNoHistory
       ELSE LET previousNode == PreviousNode(history)
            IN /\ history' = PopHistory(history)
               /\ IF GetChapter(previousNode) = ""
                  THEN /\ srvLast' = Op("handleGoBack", "error")
                       /\ srvEnq' = <<>>
                       /\ advancedFrom' = <<>>
                       /\ UNCHANGED <<vmVars, clients, broadcast, callbacks, blocked,
                                      hubVars, presenterSecret, engine, callerVars, histVars, currentNode, srvPc, srvMsg>>
                  ELSE /\ currentNode' = previousNode
                       /\ VmClearQuestionVotes(currentNode)
                       /\ AfterVmCall(ChapterChanged(previousNode, Len(history') > 0))
                       /\ srvLast' = Op("handleGoBack", "ok")
                       /\ advancedFrom' = IF srvLast = Op("handleAdvance", "ok")
                                          THEN advancedFrom ELSE <<>>

handleRestart ==
    /\ SrvMuFree
    /\ currentNode' = StartNode
    /\ history' = <<>>
    /\ advancedFrom' = <<>>
    /\ IF GetChapter(StartNode) = ""
       THEN /\ srvLast' = Op("handleRestart", "error")
            /\ srvEnq' = <<>>
            /\ UNCHANGED <<vmVars, clients, broadcast, callbacks, blocked,
                           hubVars, presenterSecret, engine, callerVars, histVars, srvPc, srvMsg>>
       ELSE /\ VmResetVoting
            /\ AfterVmCall([type |-> "story_restarted", id |-> StartNode])
            /\ srvLast' = Op("handleRestart", "ok")

\* vm.BroadcastMessage as the last call of a presenter handler: the send on the
\* channel completes once there is room, then the handler returns and unlocks
BroadcastMessage ==
    /\ srvPc = "bcast"
    /\ Len(broadcast) < QueueCap
    /\ Enqueue(srvMsg[1], gen)
    /\ srvEnq' = Append(srvEnq, srvMsg[1])
    /\ srvPc' = "idle"
    /\ srvMsg' = <<>>
    /\ UNCHANGED <<vmVars, clients, callbacks, blocked, hubVars, presenterSecret, engine, callerVars, gen, options,
                   endLog, invoked, cbLog, lastOp, currentNode, history, srvLast, advancedFrom>>

\* ------------------------------------------------------------- GetResults
\* lines 261-272: a fresh map, filled with maps.Copy from the stored tally when
\* the question has one; the whole call runs under RLock
GetResults(vs, questionID) ==
    IF questionID \in DOMAIN vs
    THEN [k \in DOMAIN vs[questionID] |-> vs[questionID][k]]
    ELSE EmptyMap

\* faulty variant: the caller is handed the stored map itself
ResultHandle_Stored(vs, questionID) ==
    [q |-> questionID, m |-> GetResults(vs, questionID),
     stored |-> questionID \in DOMAIN vs]

\* what the caller holds: the map GetResults has made, which is not the stored one
ResultHandle(vs, questionID) ==
    [q |-> questionID, m |-> GetResults(vs, questionID), stored |-> FALSE]

\* a caller (handleGetResults, a test) calls vm.GetResults(questionID)
GetResultsCall(questionID) ==
    /\ MuReadable
    /\ snap' = <<ResultHandle(votes, questionID)>>
    /\ UNCHANGED <<vmVars, clients, broadcast, callbacks, blocked, hubVars, presenterSecret, engine, srvVars,
                   histVars, voting>>

\* values a caller may store into the map it got
WriteValues == {9}

\* the caller executes results[k] = n on the map it holds; a Go map is a
\* reference, so the write lands in the tally store if that is the map it holds
CallerWrite(k, n) ==
    /\ snap # <<>>
    /\ snap' = <<[snap[1] EXCEPT !.m = MapSet(@, k, n)]>>
    /\ votes' = IF snap[1].stored /\ snap[1].q \in DOMAIN votes
                 THEN MapSet(votes, snap[1].q, MapSet(votes[snap[1].q], k, n))
                 ELSE votes
    /\ UNCHANGED <<currentQuestion, voters, votingActive, onVoteComplete, timer,
                   clients, broadcast, callbacks, blocked, hubVars, presenterSecret, engine, srvVars,
                   histVars, voting>>

\* ------------------------------------------------------------- GetChapter, step by step
\* everything but the engine
serverVars ==
    <<vmVars, clients, broadcast, callbacks, blocked, hubVars, presenterSecret,
      callerVars, srvVars, histVars>>

CallIs(g, call) == [engine EXCEPT !.calls[g] = call]

\* goroutine g calls se.GetChapter(nodeID); no lock is taken on the way in
GetChapterEnter(g, nodeID) ==
    /\ ~engine.crashed
    /\ engine.calls[g] = Idle
    /\ engine' = CallIs(g, [pc |-> "read", node |-> nodeID])
    /\ UNCHANGED serverVars

\* lines 112-119: the cache is read; a hit returns the chapter, a node that is
\* not in Story.Nodes returns the error, any other node is parsed from its file
GetChapterRead(g) ==
    /\ ~engine.crashed
    /\ engine.calls[g].pc = "read"
    /\ engine' = IF \/ engine.calls[g].node \in engine.chapters
                     \/ engine.calls[g].node \notin DOMAIN Story
                  THEN CallIs(g, Idle)
                  ELSE CallIs(g, [engine.calls[g] EXCEPT !.pc = "parse"])
    /\ UNCHANGED serverVars

\* lines 121-126: ParseMarkdownFile reads the file, which is there or not
GetChapterParse(g, ok) ==
    /\ ~engine.crashed
    /\ engine.calls[g].pc = "parse"
    /\ engine' = IF ok THEN CallIs(g, [engine.calls[g] EXCEPT !.pc = "write"])
                  ELSE CallIs(g, Idle)
    /\ UNCHANGED serverVars

\* line 140: se.chapters[nodeID] = chapter, then the return
GetChapterWrite(g) ==
    /\ ~engine.crashed
    /\ engine.calls[g].pc = "write"
    /\ engine' = [engine EXCEPT !.chapters = @ \cup {engine.calls[g].node},
                                !.calls[g] = Idle]
    /\ UNCHANGED serverVars

\* g is about to write the cache map while h is about to read or write it
Racing(g, h) ==
    /\ g # h
    /\ engine.calls[g].pc = "write"
    /\ engine.calls[h].pc \in {"read", "write"}

\* the two accesses overlap and the Go runtime stops the process ("concurrent
\* map writes", "concurrent map read and map write"); when they do not
\* overlap the calls go on as above
EngineCrash ==
    /\ ~engine.crashed
    /\ \E g, h \in Callers : Racing(g, h)
    /\ engine' = [engine EXCEPT !.crashed = TRUE]
    /\ UNCHANGED serverVars

\* ------------------------------------------------------------- HTTP routes
\* values of -presenter-secret, and the Authorization header of a request: no
\* header, Basic with a user name and this password, or Bearer with this token
Secrets == {"", "s3cret"}
Creds ==
    {[scheme |-> "none", secret |-> ""]}
    \cup [scheme : {"Basic", "Bearer"}, secret : {"s3cret", "wrong"}]

\* faulty variant: every Bearer token is accepted
Authorized_AnyBearer(cred) ==
    \/ presenterSecret = ""
    \/ cred.scheme = "Basic" /\ cred.secret = presenterSecret
    \/ cred.scheme = "Bearer"

\* the three ways requirePresenterAuth calls next(w, r)
Authorized(cred) ==
    \/ presenterSecret = ""
    \/ cred.scheme = "Basic" /\ cred.secret = presenterSecret
    \/ cred.scheme = "Bearer" /\ cred.secret = presenterSecret

\* a handler answers with this status and changes nothing
Respond(name, status) ==
    /\ lastOp' = Op(name, status)
    /\ UNCHANGED <<vmVars, clients, broadcast, callbacks, blocked, hubVars, presenterSecret, engine,
                   callerVars, srvVars, gen, options, endLog, invoked, cbLog, seqNo,
                   startedEnq>>

\* the wrapper of the presenter routes: next runs, or the answer is 401
requirePresenterAuth(cred, next) ==
    IF Authorized(cred) THEN next ELSE Respond("requirePresenterAuth", "401")

\* the routes registered without the wrapper
handleGetChapter(chapterID) ==
    Respond("handleGetChapter", IF GetChapter(chapterID) = "" THEN "404" ELSE "200")

handleGetCurrentChapter ==
    /\ srvPc = "idle"
    /\ Respond("handleGetCurrentChapter",
               IF GetChapter(currentNode) = "" THEN "500" ELSE "200")

\* the copy GetResults returns is encoded into the response and dropped
handleGetResults(questionID) ==
    /\ MuReadable
    /\ Respond("handleGetResults", "200")

\* a caller resolves an edge of the story; the answer is kept with the question
Resolved(name, nodeID, choiceID, result) ==
    /\ lastOp' = Op(name, [node |-> nodeID, choice |-> choiceID, result |-> result])
    /\ UNCHANGED <<vmVars, clients, broadcast, callbacks, blocked, hubVars, presenterSecret, engine, callerVars,
                   srvVars, gen, options, endLog, invoked, cbLog, seqNo,
                   startedEnq>>

GetNextChapterCall(nodeID) ==
    Resolved("GetNextChapter", nodeID, "", GetNextChapter(nodeID))

GetChapterByChoiceCall(nodeID, choiceID) ==
    Resolved("GetChapterByChoice", nodeID, choiceID,
             GetChapterByChoice(nodeID, choiceID))

\* ------------------------------------------------------------- the hub: Run
prodVars == <<currentQuestion, votes, voters, votingActive, onVoteComplete, timer,
              callbacks, blocked, gen, options, endLog, invoked, cbLog, lastOp,
              voting, snap, presenterSecret, engine,
              seqNo, startedEnq,
              currentNode, history, srvPc, srvMsg, srvLast, srvEnq, advancedFrom>>

\* what sendState writes: the tally and the number of voters only while a
\* session is active and its question has a tally
StateMessage ==
    IF votingActive /\ currentQuestion \in DOMAIN votes
    THEN [type |-> "state", voting_active |-> votingActive,
          question_id |-> currentQuestion,
          results |-> votes[currentQuestion],
          total |-> Cardinality(DOMAIN voters)]
    ELSE [type |-> "state", voting_active |-> votingActive,
          question_id |-> currentQuestion]

\* the log of connection c after msg has been written to it
Received(c, msg) ==
    IF seqNo > 0 THEN [recvLog EXCEPT ![c] = Append(@, msg)] ELSE recvLog

\* case client := <-vm.register (RegisterClient's send meets the select)
HubRecvRegister(c) ==
    /\ hubPc = "select"
    /\ c \notin clients
    /\ hubPc' = "register"
    /\ hubClient' = c
    /\ broken' = broken \ {c}
    /\ recvLog' = [recvLog EXCEPT ![c] = <<>>]
    /\ UNCHANGED <<prodVars, clients, broadcast, hubMsg, hubTodo, hubDelivered>>

\* vm.mu.Lock(); vm.clients[client] = true; vm.mu.Unlock()
HubRegister ==
    /\ hubPc = "register"
    /\ MuFree
    /\ clients' = clients \cup {hubClient}
    /\ hubPc' = "sendState"
    /\ UNCHANGED <<prodVars, broadcast, hubClient, hubMsg, hubTodo, hubDelivered,
                   broken, recvLog>>

\* faulty variant: the new client is registered without a state message
HubSendState_Skip(ok) ==
    /\ hubPc = "sendState"
    /\ MuFree
    /\ hubPc' = "select"
    /\ hubClient' = ""
    /\ UNCHANGED <<prodVars, clients, broadcast, hubMsg, hubTodo, hubDelivered,
                   broken, recvLog>>

\* vm.sendState(client): RLock, write the state message, RUnlock; a failed write
\* is only logged.  A write on a connection that has failed before fails again.
HubSendState(ok) ==
    /\ hubPc = "sendState"
    /\ MuFree
    /\ ok => hubClient \notin broken
    /\ hubPc' = "select"
    /\ hubClient' = ""
    /\ recvLog' = IF ok THEN Received(hubClient, StateMessage) ELSE recvLog
    /\ broken' = IF ok THEN broken ELSE broken \cup {hubClient}
    /\ UNCHANGED <<prodVars, clients, broadcast, hubMsg, hubTodo, hubDelivered>>

\* sendState in two steps: RLock and the state message built from the fields ...
SendStateBegin ==
    /\ hubPc = "sendState"
    /\ MuReadable
    /\ hubPc' = "writeState"
    /\ hubMsg' = <<StateMessage>>
    /\ UNCHANGED <<prodVars, clients, broadcast, hubClient, hubTodo, hubDelivered,
                   broken, recvLog>>

\* ... then client.WriteJSON(message), and the deferred RUnlock on return
SendStateWrite(ok) ==
    /\ hubPc = "writeState"
    /\ ok => hubClient \notin broken
    /\ hubPc' = "select"
    /\ hubClient' = ""
    /\ hubMsg' = <<>>
    /\ recvLog' = IF ok THEN Received(hubClient, hubMsg[1]) ELSE recvLog
    /\ broken' = IF ok THEN broken ELSE broken \cup {hubClient}
    /\ UNCHANGED <<prodVars, clients, broadcast, hubTodo, hubDelivered>>

\* the hub is inside a client.WriteJSON call
HubWriting == hubPc \in {"writeState", "write"}

\* the locks the hub goroutine holds between its steps
HubLocks == IF hubPc = "writeState" THEN {"vm.mu.RLock"} ELSE {}

\* case client := <-vm.unregister (UnregisterClient's send meets the select)
HubRecvUnregister(c) ==
    /\ hubPc = "select"
    /\ c \in clients
    /\ hubPc' = "unregister"
    /\ hubClient' = c
    /\ UNCHANGED <<prodVars, clients, broadcast, hubMsg, hubTodo, hubDelivered,
                   broken, recvLog>>

HubUnregister ==
    /\ hubPc = "unregister"
    /\ MuFree
    /\ clients' = clients \ {hubClient}
    /\ hubPc' = "select"
    /\ hubClient' = ""
    /\ UNCHANGED <<prodVars, broadcast, hubMsg, hubTodo, hubDelivered,
                   broken, recvLog>>

\* faulty variant: the received message stays at the head of the channel
HubRecvBroadcast_NoPop ==
    /\ hubPc = "select"
    /\ broadcast # <<>>
    /\ hubMsg' = <<Head(broadcast)>>
    /\ hubPc' = "copyClients"
    /\ UNCHANGED <<prodVars, clients, broadcast, hubClient, hubTodo, hubDelivered,
                   broken, recvLog>>

\* case message := <-vm.broadcast
HubRecvBroadcast ==
    /\ hubPc = "select"
    /\ broadcast # <<>>
    /\ hubMsg' = <<Head(broadcast)>>
    /\ broadcast' = Tail(broadcast)
    /\ hubPc' = "copyClients"
    /\ UNCHANGED <<prodVars, clients, hubClient, hubTodo, hubDelivered,
                   broken, recvLog>>

\* RLock; copy vm.clients into a slice; RUnlock
HubCopyClients ==
    /\ hubPc = "copyClients"
    /\ MuFree
    /\ hubTodo' = clients
    /\ hubPc' = IF clients = {} THEN "select" ELSE "write"
    /\ hubMsg' = IF clients = {} THEN <<>> ELSE hubMsg
    /\ UNCHANGED <<prodVars, clients, broadcast, hubClient, hubDelivered,
                   broken, recvLog>>

\* one iteration of `for _, client := range clients`: client.WriteJSON(message)
\* succeeds or fails; on failure the loop executes `vm.unregister <- client`,
\* a send on an unbuffered channel whose only receiver is this same loop
HubWrite(c, ok) ==
    /\ hubPc = "write"
    /\ c \in hubTodo
    /\ ok => c \notin broken
    /\ hubTodo' = hubTodo \ {c}
    /\ IF ok
       THEN /\ hubPc' = IF hubTodo' = {} THEN "select" ELSE "write"
            /\ hubMsg' = IF hubTodo' = {} THEN <<>> ELSE hubMsg
            /\ hubDelivered' = IF hubTodo' = {} THEN {} ELSE hubDelivered \cup {c}
            /\ hubClient' = ""
            /\ recvLog' = Received(c, hubMsg[1])
            /\ UNCHANGED broken
       ELSE /\ hubPc' = "unregSend"
            /\ hubClient' = c
            /\ broken' = broken \cup {c}
            /\ UNCHANGED <<hubMsg, hubDelivered, recvLog>>
    /\ UNCHANGED <<prodVars, clients, broadcast>>

HubNext ==
    \/ \E c \in Clients : HubRecvRegister(c)
    \/ HubRegister
    \/ \E ok \in BOOLEAN : HubSendState(ok)
    \/ \E c \in Clients : HubRecvUnregister(c)
    \/ HubUnregister
    \/ HubRecvBroadcast
    \/ HubCopyClients
    \/ \E c \in Clients, ok \in BOOLEAN : HubWrite(c, ok)

\* the voting session controller: every handler of the vote manager, the deadline
\* timer, and the hub draining the channel while no client is connected
ControllerNext ==
    \/ \E q \in Questions, o \in OptionLists : StartVotingWithChoices(q, o)
    \/ TimerFire
    \/ \E v \in Voters, c \in ChoiceKeys : SubmitVote(v, c)
    \/ EndVoting
    \/ \E g \in Gens : TimerEndVoting(g)
    \/ ResetVoting
    \/ \E q \in Questions : ClearQuestionVotes(q)
    \/ SendUnblock
    \/ HubRecvBroadcast
    \/ HubCopyClients

Spec == Init /\ [][ControllerNext]_vars

\* the hub with connecting, disconnecting and failing clients, fed by sessions
\* that are started and voted in
HubSpecNext ==
    \/ \E q \in Questions, o \in OptionLists : StartVotingWithChoices(q, o)
    \/ \E v \in Voters, c \in ChoiceKeys : SubmitVote(v, c)
    \/ SendUnblock
    \/ \E c \in Clients : HubRecvRegister(c)
    \/ HubRegister
    \/ \E ok \in BOOLEAN : HubSendState(ok)
    \/ \E c \in Clients : HubRecvUnregister(c)
    \/ HubUnregister
    \/ HubRecvBroadcast
    \/ HubCopyClients
    \/ \E c \in Clients, ok \in BOOLEAN : HubWrite(c, ok)

HubSpec == Init /\ [][HubSpecNext]_vars

\* the hub fed by one voter, with the events numbered as they are enqueued and
\* every connection logging what it receives
OrderVoters == {"v1"}
OrderKeys == {"a", "b"}
OrderNext ==
    \/ \E q \in Questions, o \in OptionLists : StartVotingWithChoices(q, o)
    \/ \E v \in OrderVoters, c \in OrderKeys : SubmitVote(v, c)
    \/ SendUnblock
    \/ HubNext

OrderSpec == InitRecording /\ [][OrderNext]_vars

\* the hub with the state push to a new client in its two steps
WriteNext ==
    \/ \E q \in Questions, o \in OptionLists : StartVotingWithChoices(q, o)
    \/ \E v \in OrderVoters, c \in OrderKeys : SubmitVote(v, c)
    \/ SendUnblock
    \/ \E c \in Clients : HubRecvRegister(c)
    \/ HubRegister
    \/ SendStateBegin
    \/ \E ok \in BOOLEAN : SendStateWrite(ok)
    \/ \E c \in Clients : HubRecvUnregister(c)
    \/ HubUnregister
    \/ HubRecvBroadcast
    \/ HubCopyClients
    \/ \E c \in Clients, ok \in BOOLEAN : HubWrite(c, ok)

WriteSpec == Init /\ [][WriteNext]_vars

\* the steps the hub takes by itself once it has left the select
HubInternal ==
    \/ HubRegister
    \/ \E ok \in BOOLEAN : HubSendState(ok)
    \/ HubUnregister
    \/ HubCopyClients
    \/ \E c \in Clients, ok \in BOOLEAN : HubWrite(c, ok)

\* the presenter navigating the story while a session is started, voted in and
\* ended, with the hub draining the channel
NavVoters == {"v1"}
NavNext ==
    \/ \E ch \in AdvanceKeys : handleAdvance(ch)
    \/ handleGoBack
    \/ handleRestart
    \/ BroadcastMessage
    \/ \E q \in Questions, o \in OptionLists : StartVotingWithChoices(q, o)
    \/ \E v \in NavVoters, c \in ChoiceKeys : SubmitVote(v, c)
    \/ EndVoting
    \/ SendUnblock
    \/ HubRecvBroadcast
    \/ HubCopyClients

NavSpec == Init /\ [][NavNext]_vars

\* the presenter moves through the story while edges of any node are resolved
ResolveNext ==
    \/ \E ch \in AdvanceKeys : handleAdvance(ch)
    \/ handleGoBack
    \/ handleRestart
    \/ BroadcastMessage
    \/ \E n \in NodeIDs : GetNextChapterCall(n)
    \/ \E n \in NodeIDs, c \in AdvanceKeys : GetChapterByChoiceCall(n, c)
    \/ SendUnblock
    \/ HubRecvBroadcast
    \/ HubCopyClients

ResolveSpec == Init /\ [][ResolveNext]_vars

\* requests with and without credentials reach a server that may have a secret
AuthInit == \E secret \in Secrets : InitServer(0, secret)

\* the five routes registered with the wrapper
AuthKeys == {"", "a"}
PresenterCommand ==
    \/ \E ch \in AuthKeys : handleAdvance(ch)
    \/ handleGoBack
    \/ handleRestart
    \/ \E q \in Questions, o \in OptionLists : StartVotingWithChoices(q, o)
    \/ ResetVoting

AuthNext ==
    \/ \E cred \in Creds : requirePresenterAuth(cred, PresenterCommand)
    \/ \E id \in NodeIDs : handleGetChapter(id)
    \/ handleGetCurrentChapter
    \/ \E q \in Questions : handleGetResults(q)
    \/ \E v \in NavVoters : SubmitVote(v, "a")
    \/ BroadcastMessage
    \/ SendUnblock
    \/ HubRecvBroadcast
    \/ HubCopyClients

AuthSpec == AuthInit /\ [][AuthNext]_vars

\* two goroutines call GetChapter on an engine whose cache holds the chapters
\* that could be read when the story was validated
EngineInit == \E loaded \in SUBSET (DOMAIN Story) : InitEngine(0, "", loaded)

EngineNext ==
    \/ \E g \in Callers, n \in NodeIDs : GetChapterEnter(g, n)
    \/ \E g \in Callers : GetChapterRead(g)
    \/ \E g \in Callers, ok \in BOOLEAN : GetChapterParse(g, ok)
    \/ \E g \in Callers : GetChapterWrite(g)
    \/ EngineCrash

EngineSpec == EngineInit /\ [][EngineNext]_vars

\* sessions on two questions, so that the tally store holds more than one tally
TallyQuestions == {"q1", "q2"}
TallyNext ==
    \/ \E q \in TallyQuestions, o \in OptionLists : StartVotingWithChoices(q, o)
    \/ \E v \in OrderVoters, c \in OrderKeys : SubmitVote(v, c)
    \/ EndVoting
    \/ \E q \in TallyQuestions : ClearQuestionVotes(q)
    \/ ResetVoting
    \/ SendUnblock
    \/ HubRecvBroadcast
    \/ HubCopyClients

TallySpec == Init /\ [][TallyNext]_vars

\* sessions that are voted in and ended, by a call or by the deadline, with the
\* events numbered and the arguments of the completion callbacks logged
EndNext ==
    \/ \E q \in Questions, o \in OptionLists : StartVotingWithChoices(q, o)
    \/ TimerFire
    \/ \E v \in Voters, c \in OrderKeys : SubmitVote(v, c)
    \/ EndVoting
    \/ \E g \in Gens : TimerEndVoting(g)
    \/ SendUnblock
    \/ HubRecvBroadcast
    \/ HubCopyClients

EndSpec == InitRecording /\ [][EndNext]_vars

\* votes applied in two steps while callers take snapshots of the tally and
\* write into what they got
SnapNext ==
    \/ \E q \in Questions, o \in OptionLists : StartVotingWithChoices(q, o)
    \/ \E v \in Voters, c \in OrderKeys : VoteBegin(v, c)
    \/ VoteFinish
    \/ EndVoting
    \/ \E q \in Questions : GetResultsCall(q)
    \/ \E k \in OrderKeys, n \in WriteValues : CallerWrite(k, n)
    \/ SendUnblock
    \/ HubRecvBroadcast
    \/ HubCopyClients

SnapSpec == Init /\ [][SnapNext]_vars

\* votes arrive as messages of the clients
InboundNext ==
    \/ \E q \in Questions, o \in OptionLists : StartVotingWithChoices(q, o)
    \/ \E data \in Inbound : HandleVoteMessage(data)
    \/ EndVoting
    \/ SendUnblock
    \/ HubRecvBroadcast
    \/ HubCopyClients

InboundSpec == Init /\ [][InboundNext]_vars

\* sessions that only their deadline timer ends, with voters and clients around.
\* Fairness: the runtime fires an armed timer, a goroutine waiting for vm.mu gets
\* it when it is free again and again, a blocked send completes once there is
\* room, and the hub goroutine keeps running: its select takes a waiting message.
LiveNext ==
    \/ \E q \in Questions, o \in OptionLists : StartVotingWithChoices(q, o)
    \/ TimerFire
    \/ \E v \in Voters, c \in ChoiceKeys : SubmitVote(v, c)
    \/ \E g \in Gens : TimerEndVoting(g)
    \/ SendUnblock
    \/ \E c \in Clients : HubRecvRegister(c)
    \/ HubRegister
    \/ \E ok \in BOOLEAN : HubSendState(ok)
    \/ \E c \in Clients : HubRecvUnregister(c)
    \/ HubUnregister
    \/ HubRecvBroadcast
    \/ HubCopyClients
    \/ \E c \in Clients, ok \in BOOLEAN : HubWrite(c, ok)

LiveSpec ==
    /\ Init
    /\ [][LiveNext]_vars
    /\ WF_vars(TimerFire)
    /\ SF_vars(\E g \in Gens : TimerEndVoting(g))
    /\ SF_vars(SendUnblock)
    /\ SF_vars(HubRecvBroadcast)
    /\ SF_vars(HubInternal)

\* ------------------------------------------------------------- claims
DistinctVoters == Cardinality(DOMAIN voters)
CurrentTally == VotesOf(votes, currentQuestion)

\* C1: while a session is active, a voter whose recorded choice is X and who
\* submits Y # X moves exactly one count from X to Y: X loses 1, Y gains 1, every
\* other option keeps its count, and the number of distinct voters is unchanged.
C1_ChangeVoteMovesOneCount ==
    [][\A v \in Voters, y \in ChoiceKeys :
         (/\ votingActive
          /\ v \in DOMAIN voters
          /\ voters[v] # y
          /\ SubmitVote(v, y))
         => LET x == voters[v]
                q == currentQuestion
            IN /\ votes'[q][x] = votes[q][x] - 1
               /\ votes'[q][y] = MapGet(votes[q], y) + 1
               /\ \A k \in (DOMAIN votes'[q]) \ {x, y} :
                     k \in DOMAIN votes[q] /\ votes'[q][k] = votes[q][k]
               /\ DOMAIN votes'[q] = (DOMAIN votes[q]) \cup {y}
               /\ Cardinality(DOMAIN voters') = DistinctVoters]_vars

\* a voter has just changed an earlier vote for "a" into a vote for "b"
C1_Witness ==
    /\ lastOp = Op("SubmitVote", "change")
    /\ votingActive
    /\ \E v \in DOMAIN voters : voters[v] = "b"
    /\ CurrentTally["a"] = 0
    /\ CurrentTally["b"] = 1

\* C2: in every state with an active session the counts of the current question
\* add up to the number of distinct voters, each voter being counted once, under
\* the option the voter chose last.
C2_OneVotePerVoter ==
    votingActive =>
        /\ MapSum(CurrentTally) = DistinctVoters
        /\ \A k \in DOMAIN CurrentTally :
              CurrentTally[k] = Cardinality({v \in DOMAIN voters : voters[v] = k})

\* both voters have voted and one of them has just voted again
C2_Witness ==
    /\ votingActive
    /\ DistinctVoters = 2
    /\ lastOp \in {Op("SubmitVote", "change"), Op("SubmitVote", "same")}
    /\ MapSum(CurrentTally) = 2

\* C3: the end transition takes effect at most once per session: voting_ended is
\* emitted and the completion callback started at most once, and an EndVoting
\* (explicit or from the deadline timer) that finds the session already ended
\* changes nothing.
C3_EndAtMostOnce ==
    /\ [](\A g \in Gens : Len(endLog[g]) <= 1 /\ invoked[g] <= 1)
    /\ [][(~votingActive /\ (EndVoting \/ \E g \in Gens : TimerEndVoting(g)))
            => UNCHANGED <<vmVars, broadcast, blocked, endLog, invoked>>]_vars

\* the explicit EndVoting won the race: the deadline callback of the same session
\* ran afterwards and was a no-op
C3_Witness ==
    /\ gen = 1
    /\ endLog[1] = <<0>>
    /\ invoked[1] = 1
    /\ callbacks = {}
    /\ lastOp = Op("TimerEndVoting", "noop")

\* C4: the deadline callback of one session never ends another session: every
\* session is ended by an explicit EndVoting (0) or by its own timer.
C4_TimerEndsOnlyItsOwnSession ==
    \A g \in Gens : \A i \in 1..Len(endLog[g]) : endLog[g][i] \in {0, g}

\* a step in which a session ends (only EndVoting clears votingActive and keeps
\* the current question), and the message that step has sent
EndStep == votingActive /\ ~votingActive' /\ currentQuestion' = currentQuestion
SentMsg == IF blocked # <<>> THEN blocked[1].msg ELSE broadcast[Len(broadcast)]

MaxCount(results) ==
    IF DOMAIN results = {} THEN 0
    ELSE CHOOSE n \in {results[k] : k \in DOMAIN results} :
            \A k \in DOMAIN results : results[k] <= n
\* the first option of the registered list that holds the highest count
FirstRegisteredMax(results, opts) ==
    LET idx == {i \in 1..Len(opts) :
                  opts[i] \in DOMAIN results /\ results[opts[i]] = MaxCount(results)}
    IN opts[CHOOSE i \in idx : \A j \in idx : i <= j]

\* C5: when registered options tie for the highest count, the winner is the tied
\* option that comes first in the option list the session was started with.
C5_TieBrokenByRegistrationOrder ==
    [][(/\ EndStep
        /\ MaxCount(CurrentTally) > 0
        /\ \A k \in DOMAIN CurrentTally :
              CurrentTally[k] = MaxCount(CurrentTally) => k \in Range(options))
       => SentMsg'.winner = FirstRegisteredMax(CurrentTally, options)]_vars

\* C6: when a session ends, the winner holds the highest count of the question's
\* tally and that count is positive; when every count is zero the winner is "".
C6_WinnerHasMaxCount ==
    [][EndStep =>
        LET r == CurrentTally
            w == SentMsg'.winner
        IN /\ SentMsg'.type = "voting_ended"
           /\ SentMsg'.results = r
           /\ IF \E k \in DOMAIN r : r[k] > 0
              THEN w \in DOMAIN r /\ r[w] > 0 /\ \A k \in DOMAIN r : r[k] <= r[w]
              ELSE w = ""]_vars

\* a session has just ended with a clear winner: two votes for "b", none for "a"
C6_Witness ==
    /\ lastOp.outcome = "ended"
    /\ ~votingActive
    /\ blocked = <<>> /\ broadcast # <<>>
    /\ SentMsg.type = "voting_ended"
    /\ SentMsg.winner = "b"
    /\ SentMsg.results["b"] = 2
    /\ SentMsg.results["a"] = 0

\* C8: SubmitVote while no session is active returns nil and changes no tally, no
\* voter record and nothing else of the vote manager, and enqueues no event.
C8_IdleVoteIsNoop ==
    [][\A v \in Voters, c \in ChoiceKeys :
         (~votingActive /\ SubmitVote(v, c))
         => /\ UNCHANGED <<vmVars, broadcast, blocked>>
            /\ lastOp' = Op("SubmitVote", "idle")]_vars

\* a vote has just been submitted after the session was ended
C8_Witness ==
    /\ lastOp = Op("SubmitVote", "idle")
    /\ gen = 1
    /\ Len(endLog[1]) = 1
    /\ currentQuestion = "q1"

\* C9: the keys of the current question's tally are exactly the options the
\* session was started with (a vote for any other key is dropped).
C9_TallyKeysAreOptions ==
    votingActive => DOMAIN CurrentTally = Range(options)

\* C7: a started session that no reset, clear or new start interrupts is ended
\* by its deadline timer alone: it becomes idle, voting_ended is emitted and the
\* completion callback is started.
C7_AutoClose ==
    \A g \in Gens :
        (votingActive /\ gen = g)
        ~> \/ gen # g
           \/ currentQuestion = ""
           \/ (~votingActive /\ Len(endLog[g]) = 1 /\ invoked[g] = 1)

\* C10: a failed write to one client does not stop the hub: after the failure
\* the dispatch loop still has a step to take (it unregisters the client, goes
\* on with the other clients and returns to its select).
C10_WriteFailureDoesNotBlockHub ==
    hubPc = "unregSend" => ENABLED HubNext

\* the broadcast events connection c has received, in the order of receipt
RECURSIVE EventsOf(_)
EventsOf(log) ==
    IF log = <<>> THEN <<>>
    ELSE IF Head(log).type = "state" THEN EventsOf(Tail(log))
    ELSE <<Head(log).seq>> \o EventsOf(Tail(log))

C12_StateFirstToNewClientOnly ==
    /\ [](\A c \in Clients : recvLog[c] # <<>> => recvLog[c][1].type = "state")
    /\ [][(hubPc = "sendState" /\ hubPc' = "select")
            => /\ \A d \in Clients \ {hubClient} : recvLog'[d] = recvLog[d]
               /\ broadcast' = broadcast
               /\ hubClient \in broken'
                  \/ LET m == recvLog'[hubClient]
                     IN /\ Len(m) = 1
                        /\ m[1].type = "state"
                        /\ m[1].voting_active = votingActive
                        /\ m[1].question_id = currentQuestion
                        /\ votingActive => /\ m[1].results = CurrentTally
                                            /\ m[1].total = DistinctVoters]_vars

\* c1 connected before the session and c2 while it was active with one vote
\* cast; each got its state message first and the later events after it
C12_Witness ==
    /\ Len(recvLog["c1"]) >= 2
    /\ recvLog["c1"][1] = [type |-> "state", voting_active |-> FALSE,
                           question_id |-> ""]
    /\ recvLog["c1"][2].type = "voting_started"
    /\ Len(recvLog["c2"]) >= 2
    /\ recvLog["c2"][1].type = "state"
    /\ recvLog["c2"][1].voting_active
    /\ recvLog["c2"][1].question_id = "q1"
    /\ recvLog["c2"][1].total = 1
    /\ recvLog["c2"][2].type = "vote_update"

\* a step in which an event enters the broadcast channel, and that event
EnqueueStep == Len(broadcast') = Len(broadcast) + 1
Enqueued == broadcast[Len(broadcast)]

\* C13: in every session the voting_started event is enqueued before any
\* vote_update of that session: whenever a vote_update enters the channel, the
\* voting_started of the current session has entered it before.
C13_StartedBeforeUpdates ==
    [][(EnqueueStep /\ Enqueued'.type = "vote_update")
        => gen' = gen /\ gen \in startedEnq]_vars

\* the second session's first vote_update has just been enqueued
C13_Witness ==
    /\ gen = 2
    /\ startedEnq = {1, 2}
    /\ votingActive
    /\ DistinctVoters = 1
    /\ blocked = <<>> /\ broadcast # <<>>
    /\ Enqueued.type = "vote_update"

\* C14: an advance that fails (the choice key is not a choice of the current
\* chapter, the chapter has no default next, or the target is not a node of the
\* story) leaves the current node and the history as they were and enqueues no
\* chapter_changed.
C14_FailedAdvanceChangesNothing ==
    [][\A ch \in AdvanceKeys :
         (handleAdvance(ch) /\ AdvanceTarget(currentNode, ch) = "")
         => /\ currentNode' = currentNode
            /\ history' = history
            /\ broadcast' = broadcast
            /\ srvPc' = "idle"]_vars

\* C15: a go-back while the history is empty fails with the no-history error
\* and changes nothing: not the current node, not the history, not the voting
\* session, and it enqueues no event.
C15_GoBackOnEmptyHistoryIsNoop ==
    [][(handleGoBack /\ Len(history) = 0)
        => /\ srvLast' = Op("handleGoBack", "no history")
           /\ UNCHANGED <<currentNode, history, srvPc, srvMsg>>
           /\ UNCHANGED <<vmVars, broadcast, blocked>>]_vars

\* a go-back has just been refused at the start node while a session with one
\* vote was active
C15_Witness ==
    /\ srvLast = Op("handleGoBack", "no history")
    /\ history = <<>>
    /\ currentNode = StartNode
    /\ votingActive
    /\ DistinctVoters = 1

VotingReset == [type |-> "voting_reset", status |-> "reset"]

\* C16: a successful advance pushes the node it leaves on the history, makes the
\* target (by choice, or the default next) the current node, and enqueues one
\* chapter_changed event that names the new node with can_go_back = true.
C16_AdvanceMovesAndAnnounces ==
    /\ [][\A ch \in AdvanceKeys :
            (handleAdvance(ch) /\ AdvanceTarget(currentNode, ch) # "")
            => /\ history' = Append(history, currentNode)
               /\ currentNode' = (IF ch = "" THEN Story[currentNode].next
                                  ELSE AdvanceTarget(currentNode, ch))
               /\ currentNode' \in DOMAIN Story]_vars
    /\ [](srvLast = Op("handleAdvance", "ok")
           => IF srvPc = "idle"
              THEN srvEnq = <<ChapterChanged(currentNode, TRUE)>>
              ELSE srvEnq = <<>> /\ srvMsg = <<ChapterChanged(currentNode, TRUE)>>)

\* the presenter has advanced from the decision by choice "a" and the event is
\* in the channel
C16_Witness ==
    /\ srvLast = Op("handleAdvance", "ok")
    /\ srvPc = "idle"
    /\ currentNode = "pa"
    /\ history = <<"intro", "q1">>
    /\ srvEnq = <<ChapterChanged("pa", TRUE)>>

\* C17: a successful go-back takes the top entry off the history and makes it
\* the current node, and enqueues a chapter_changed event that names it, with
\* can_go_back true exactly when the remaining history is not empty.
C17_GoBackPopsAndAnnounces ==
    /\ [][(handleGoBack /\ Len(history) > 0
            /\ GetChapter(history[Len(history)]) # "")
           => /\ currentNode' = history[Len(history)]
              /\ history' = SubSeq(history, 1, Len(history) - 1)]_vars
    /\ [](srvLast = Op("handleGoBack", "ok") /\ srvPc = "idle"
           => /\ Len(srvEnq) = 2
              /\ srvEnq[2] = ChapterChanged(currentNode, Len(history) > 0))

\* the presenter went back from "pa" to the decision: one entry is left
C17_Witness ==
    /\ srvLast = Op("handleGoBack", "ok")
    /\ srvPc = "idle"
    /\ currentNode = "q1"
    /\ history = <<"intro">>
    /\ srvEnq = <<VotingReset, ChapterChanged("q1", TRUE)>>

\* C18: a restart puts the current node on the start key, empties the history
\* and leaves the vote manager idle with no current question, no voters and no
\* tallies; it enqueues voting_reset and then story_restarted naming the start
\* node.
C18_RestartResetsEverything ==
    /\ [][handleRestart
           => /\ currentNode' = StartNode
              /\ history' = <<>>
              /\ ~votingActive'
              /\ currentQuestion' = ""
              /\ voters' = EmptyMap
              /\ votes' = EmptyMap
              /\ onVoteComplete' = 0
              /\ timer' \in {"nil", "done"}]_vars
    /\ [](srvLast = Op("handleRestart", "ok") /\ srvPc = "idle"
           => srvEnq = <<VotingReset,
                         [type |-> "story_restarted", id |-> StartNode]>>)

\* the presenter restarted from "pa" while a session with a vote was active;
\* both events are in the channel or delivered
C18_Witness ==
    /\ srvLast = Op("handleRestart", "ok")
    /\ srvPc = "idle"
    /\ lastOp = Op("ResetVoting", "interrupted")
    /\ gen = 1
    /\ currentNode = StartNode
    /\ history = <<>>
    /\ votes = EmptyMap
    /\ Len(srvEnq) = 2

\* C19: ClearQuestionVotes(q) removes the tally of q and leaves the tally of
\* every other question exactly as it was.
C19_ClearTouchesOnlyItsQuestion ==
    [][\A q \in TallyQuestions :
         ClearQuestionVotes(q)
         => /\ DOMAIN votes' = (DOMAIN votes) \ {q}
            /\ \A p \in DOMAIN votes' : votes'[p] = votes[p]]_vars

\* a clear has just interrupted the second session: the tally of the other
\* question, with the vote cast in it, is all that the store holds
C19_Witness ==
    /\ lastOp = Op("ClearQuestionVotes", "interrupted")
    /\ gen = 2
    /\ endLog[1] = <<0>>
    /\ DOMAIN votes = {"q2"}
    /\ votes["q2"]["a"] = 1

\* session g has been left without an end: it was started, it is not the
\* active session, and no voting_ended of it is in the channel or pending
Abandoned(g) ==
    /\ g <= gen
    /\ gen = g => ~votingActive
    /\ endLog[g] = <<>>
    /\ ~(blocked # <<>> /\ blocked[1].post # <<>> /\ blocked[1].post[1].gen = g)

\* C20: ResetVoting and ClearQuestionVotes called while a session is active
\* make the vote manager idle without an end transition: the step sends a
\* voting_reset and no voting_ended, starts no completion callback and drops
\* the registered one; and the session stays without voting_ended and without
\* a callback afterwards, whatever its deadline timer does.
C20_ResetInterruptsWithoutEnd ==
    /\ [][(votingActive /\ (ResetVoting \/ \E q \in Questions : ClearQuestionVotes(q)))
           => /\ ~votingActive'
              /\ currentQuestion' = ""
              /\ onVoteComplete' = 0
              /\ SentMsg'.type = "voting_reset"
              /\ endLog' = endLog
              /\ invoked' = invoked
              /\ Abandoned(gen)']_vars
    /\ [][\A g \in Gens :
            Abandoned(g) => /\ Abandoned(g)'
                            /\ invoked'[g] = invoked[g]]_vars

\* the first session was interrupted by a reset or a clear after its timer had
\* fired; the deadline callback has run since and found nothing to end
C20_Witness ==
    /\ lastOp = Op("TimerEndVoting", "noop")
    /\ gen = 1
    /\ currentQuestion = ""
    /\ callbacks = {}
    /\ endLog[1] = <<>>
    /\ invoked[1] = 0

\* C21: after ResetVoting, from whatever state it is called in, voting is
\* inactive, the current question is empty, no voter is recorded and the tally
\* store holds no question: GetResults of any question is the empty map.
C21_ResetLeavesNothing ==
    [][ResetVoting
        => /\ ~votingActive'
           /\ currentQuestion' = ""
           /\ voters' = EmptyMap
           /\ DOMAIN votes' = {}
           /\ \A q \in Questions \cup {""} : GetResults(votes', q) = EmptyMap]_vars

\* the first session was ended, its tally staying in the store, and a reset
\* has then emptied the store
C21_Witness ==
    /\ lastOp = Op("ResetVoting", "reset")
    /\ gen = 1
    /\ endLog[1] = <<0>>
    /\ votes = EmptyMap
    /\ voters = EmptyMap
    /\ ~votingActive

\* C22: when a session ends, the voting_ended event that enters the channel
\* carries the current question, the counts of that question at that moment and
\* the winner, and the completion callback is started exactly once, with the
\* same counts and the same winner, as a goroutine of its own: the step that
\* starts it is the step in which EndVoting finishes.
C22_EndAnnouncesAndCallsBack ==
    /\ [][\A g \in Gens :
            Len(endLog'[g]) > Len(endLog[g])
            => /\ EnqueueStep
               /\ Enqueued'.type = "voting_ended"
               /\ Enqueued'.question_id = currentQuestion
               /\ Enqueued'.results = CurrentTally
               /\ Enqueued'.winner \in DOMAIN CurrentTally \cup {""}
               /\ invoked'[g] = invoked[g] + 1
               /\ cbLog'[g] = Append(cbLog[g], [results |-> Enqueued'.results,
                                                 winner |-> Enqueued'.winner])
               /\ blocked' = <<>>]_vars
    /\ [](\A g \in Gens : /\ invoked[g] = Len(endLog[g])
                            /\ Len(cbLog[g]) = Len(endLog[g])
                            /\ invoked[g] <= 1)

\* the first session ended with a vote for "b": the callback got that tally and
\* that winner
C22_Witness ==
    /\ gen = 1
    /\ Len(endLog[1]) = 1
    /\ invoked[1] = 1
    /\ cbLog[1] = <<[results |-> [a |-> 0, b |-> 1], winner |-> "b"]>>

\* C23: GetResults(q) hands out a copy of the counts of q.  A write of the
\* caller into the map it got changes no stored tally, so that the next
\* GetResults(q) returns the stored counts again; and the counts handed out are
\* never those of a half-applied vote: they are the stored counts of a moment at
\* which, in an active session, the counts of the current question add up to
\* the number of recorded voters.
C23_ResultsAreACopy ==
    /\ [][\A k \in OrderKeys, n \in WriteValues :
            CallerWrite(k, n)
            => /\ votes' = votes
               /\ \A q \in Questions : GetResults(votes', q) = GetResults(votes, q)]_vars
    /\ [][\A q \in Questions :
            GetResultsCall(q)
            => /\ snap'[1].m = VotesOf(votes, q)
               /\ votes' = votes
               /\ (votingActive /\ q = currentQuestion)
                  => MapSum(snap'[1].m) = DistinctVoters]_vars
    /\ [](voting # <<>> => ~ENABLED (\E q \in Questions : GetResultsCall(q)))

\* a caller has overwritten "a" in the map it got while the stored tally still
\* holds the two votes, one of them changed from "a" to "b"
C23_Witness ==
    /\ snap # <<>>
    /\ snap[1].q = "q1"
    /\ snap[1].m = [a |-> 9, b |-> 1]
    /\ votingActive
    /\ lastOp = Op("SubmitVote", "change")
    /\ CurrentTally = [a |-> 1, b |-> 1]

\* C24: in an active session the first vote of a voter for an option X adds
\* exactly one to the count of X and one to the number of distinct voters, and
\* every further vote of that voter for the same X changes neither the counts
\* nor the recorded voters; so after N votes for X the count of X and the number
\* of distinct voters are each one more than before the first.
C24_RepeatedVoteCountsOnce ==
    [][\A v \in Voters, x \in ChoiceKeys :
         (votingActive /\ SubmitVote(v, x))
         => LET q == currentQuestion
            IN IF v \notin DOMAIN voters
               THEN /\ votes'[q][x] = MapGet(VotesOf(votes, q), x) + 1
                    /\ Cardinality(DOMAIN voters') = DistinctVoters + 1
               ELSE voters[v] = x
                    => /\ votes'[q] = votes[q]
                       /\ voters' = voters]_vars

\* the only voter so far has just voted for "b" again, and "b" counts one vote
C24_Witness ==
    /\ votingActive
    /\ lastOp = Op("SubmitVote", "same")
    /\ voters = [v \in {"v2"} |-> "b"]
    /\ CurrentTally = [a |-> 0, b |-> 1]

\* C25: StartVoting(q, O) leaves the manager with an active session whose current
\* question is q, with a tally of q that has exactly the options of O as keys,
\* each at zero, whatever q counted before, and with no recorded voter.
C25_StartVotingInitialises ==
    [][\A q \in Questions, o \in OptionLists :
         StartVotingWithChoices(q, o)
         => /\ votingActive'
            /\ currentQuestion' = q
            /\ DOMAIN votes'[q] = Range(o)
            /\ \A k \in Range(o) : votes'[q][k] = 0
            /\ voters' = EmptyMap]_vars

\* the second session of "q1" has just been started; a caller still holds the
\* counts it read of "q1" before, with one vote for "a"
C25_Witness ==
    /\ lastOp = Op("StartVoting", "started")
    /\ gen = 2
    /\ snap # <<>>
    /\ snap[1].q = "q1"
    /\ snap[1].m = [a |-> 1, b |-> 0]
    /\ votingActive
    /\ currentQuestion = "q1"
    /\ CurrentTally = [a |-> 0, b |-> 0]
    /\ voters = EmptyMap

\* C26: an inbound message that does not parse makes HandleVoteMessage return
\* an error and changes no tally and no voter; a message that parses and whose
\* type is not "vote" returns no error and changes nothing either; and exactly
\* the messages that parse and have type "vote" are passed to SubmitVote, with
\* the voter and the choice they carry.
C26_OnlyVotesReachSubmitVote ==
    [][\A data \in Inbound :
         HandleVoteMessage(data)
         => /\ ~data.valid
               => /\ lastOp' = Op("HandleVoteMessage", "error")
                  /\ votes' = votes /\ voters' = voters
            /\ (data.valid /\ data.type # "vote")
               => /\ lastOp' = Op("HandleVoteMessage", "nil")
                  /\ votes' = votes /\ voters' = voters
            /\ (data.valid /\ data.type = "vote")
               => SubmitVote(data.voter_id, data.choice_id)
            /\ (votes' # votes \/ voters' # voters \/ lastOp'.op = "SubmitVote")
               => (data.valid /\ data.type = "vote")]_vars

\* a message that did not parse has just been turned down in an active session
\* in which one vote has been counted
C26_Witness ==
    /\ lastOp = Op("HandleVoteMessage", "error")
    /\ votingActive
    /\ DistinctVoters = 1
    /\ MapSum(CurrentTally) = 1

\* C27: edge resolution follows the graph.  GetNextChapter(n) is the node the
\* `next` of n names, and an error when n has no `next`; GetChapterByChoice(n, c)
\* is the node the choice of n with id c leads to, and an error when n has no
\* choice with id c (so also when n has no choices); and both are an error, as
\* every call returns, when n is no node of the graph or the edge names a node
\* the graph does not have.
C27_EdgesResolveAsInGraph ==
    LET n == lastOp.outcome.node
        c == lastOp.outcome.choice
        r == lastOp.outcome.result
        Targets == {Story[n].choices[i].next :
                      i \in {j \in 1..Len(Story[n].choices) : Story[n].choices[j].id = c}}
    IN /\ lastOp.op = "GetNextChapter"
          => /\ n \notin DOMAIN Story => r = ""
             /\ n \in DOMAIN Story
                => /\ Story[n].next = "" => r = ""
                   /\ Story[n].next \in DOMAIN Story => r = Story[n].next
                   /\ Story[n].next \notin DOMAIN Story => r = ""
       /\ lastOp.op = "GetChapterByChoice"
          => /\ n \notin DOMAIN Story => r = ""
             /\ n \in DOMAIN Story
                => /\ Targets = {} => r = ""
                   /\ \A t \in Targets :
                         r = (IF t \in DOMAIN Story THEN t ELSE "")

\* after the presenter has moved on to the decision, its choice "b" has been
\* resolved to the chapter "pb"
C27_Witness ==
    /\ currentNode = "q1"
    /\ lastOp.op = "GetChapterByChoice"
    /\ lastOp.outcome = [node |-> "q1", choice |-> "b", result |-> "pb"]

\* C28: on a server with a presenter secret, each of the five presenter commands
\* that comes without the secret as Basic password or Bearer token is answered
\* 401 and leaves the position, the history and the voting state as they were;
\* the three public reads are never answered 401; and on a server without a
\* secret no presenter command is answered 401, whatever the credentials.
C28_PresenterSecretGuards ==
    /\ [][\A cred \in Creds :
            (/\ presenterSecret # ""
             /\ ~(cred.scheme \in {"Basic", "Bearer"} /\ cred.secret = presenterSecret)
             /\ requirePresenterAuth(cred, PresenterCommand))
            => /\ lastOp' = Op("requirePresenterAuth", "401")
               /\ UNCHANGED <<currentNode, history, vmVars>>]_vars
    /\ [](lastOp.op \in {"handleGetChapter", "handleGetCurrentChapter",
                          "handleGetResults"}
          => lastOp.outcome # "401")
    /\ [](presenterSecret = "" => lastOp.outcome # "401")

\* on a server with a secret a command has just been answered 401 while the
\* presenter is at the decision and its session has a vote
C28_Witness ==
    /\ presenterSecret = "s3cret"
    /\ lastOp = Op("requirePresenterAuth", "401")
    /\ currentNode = "q1"
    /\ history = <<"intro">>
    /\ votingActive
    /\ DistinctVoters = 1

C30_PresenterCommandsSerialized ==
    /\ [][srvPc # "idle" => (currentNode' = currentNode /\ history' = history)]_vars
    /\ [][(srvPc = "idle" /\ srvPc' = "idle") => currentNode' = currentNode]_vars
    /\ [][(srvPc # "idle" /\ srvPc' = "idle")
          => /\ broadcast' # <<>>
             /\ broadcast'[Len(broadcast')].type \in {"chapter_changed", "story_restarted"}
             /\ broadcast'[Len(broadcast')].id = currentNode'
             /\ srvEnq' # <<>>
             /\ srvEnq'[Len(srvEnq')].id = currentNode']_vars

\* the presenter went on to the decision and back; the go-back has returned and
\* its chapter_changed, the last event in the channel, names the opening chapter
C30_Witness ==
    /\ srvPc = "idle"
    /\ srvLast = Op("handleGoBack", "ok")
    /\ currentNode = "intro"
    /\ history = <<>>
    /\ broadcast # <<>>
    /\ broadcast[Len(broadcast)].type = "chapter_changed"
    /\ broadcast[Len(broadcast)].id = "intro"

\* C31: one session is alive at a time.  The registered callback is that of the
\* session started last; StartVoting over an active session sends its
\* voting_started and nothing else, ends nothing and starts no callback; and
\* the session it has replaced stays without voting_ended and without a
\* callback for good, whatever ends the new session.
C31_ReplacedSessionNeverEnds ==
    /\ [](onVoteComplete \in {0, gen})
    /\ [][\A q \in Questions, o \in OptionLists, g \in Gens :
            (votingActive /\ g = gen /\ StartVotingWithChoices(q, o))
            => /\ SentMsg'.type = "voting_started"
               /\ endLog' = endLog
               /\ invoked' = invoked
               /\ onVoteComplete' = g + 1
               /\ Abandoned(g)']_vars
    /\ [][\A g \in Gens :
            (g < gen /\ Abandoned(g))
            => /\ endLog'[g] = <<>>
               /\ invoked'[g] = invoked[g]]_vars

\* the second StartVoting has replaced the first session right after one of its
\* votes: the vote_update still fills the channel, the voting_started waits for
\* room, and the first session has no end and no callback
C31_Witness ==
    /\ gen = 2
    /\ lastOp = Op("StartVoting", "started")
    /\ blocked # <<>>
    /\ blocked[1].msg.type = "voting_started"
    /\ broadcast # <<>>
    /\ broadcast[1].type = "vote_update"
    /\ endLog[1] = <<>>
    /\ invoked[1] = 0
    /\ onVoteComplete = 2

\* C32: the graph navigation operations write nothing that their callers share
\* without synchronization: no goroutine is ever about to write the chapter
\* cache while another is about to read or write it, and the process never
\* stops on a concurrent map access.
C32_NoUnsynchronizedSharedWrite ==
    /\ ~engine.crashed
    /\ \A g, h \in Callers : ~Racing(g, h)

\* C33: no stored count is ever negative, for any question and any option,
\* whatever sequence of start, vote, changed vote, end, reset, clear and new
\* start of the same question has been run.
C33_CountsNeverNegative ==
    \A q \in DOMAIN votes : \A k \in DOMAIN votes[q] : votes[q][k] >= 0

\* in the second session of the question a voter has changed a vote, which has
\* taken the count of "a" down to zero
C33_Witness ==
    /\ gen = 2
    /\ votingActive
    /\ lastOp = Op("SubmitVote", "change")
    /\ CurrentTally = [a |-> 0, b |-> 1]

\* the nodes that the edges of n name, and the edges of the story that name a
\* node the story does not have
EdgeTargets(n) ==
    ({Story[n].next} \ {""})
    \cup {Story[n].choices[i].next : i \in 1..Len(Story[n].choices)}
DanglingEdges ==
    {e \in (DOMAIN Story) \X NodeIDs :
        e[2] \in EdgeTargets(e[1]) /\ e[2] \notin DOMAIN Story}
\* node n has an edge for the key of an advance request
HasEdge(n, key) ==
    IF key = "" THEN Story[n].next # ""
    ELSE \E i \in 1..Len(Story[n].choices) : Story[n].choices[i].id = key

\* C34: validation reports every structural error.  A story whose start node
\* is missing or that has an edge to a node it does not have gets a non-empty
\* error list; so on a story that validates without errors an advance along an
\* edge of the current node never fails.
C34_ValidationFindsDanglingEdges ==
    /\ []((StartNode \notin DOMAIN Story \/ DanglingEdges # {})
          => ValidateStory(Story, StartNode, engine.chapters) # {})
    /\ [][\A key \in AdvanceKeys :
            (/\ ValidateStory(Story, StartNode, engine.chapters) = {}
             /\ HasEdge(currentNode, key)
             /\ handleAdvance(key))
            => srvLast' = Op("handleAdvance", "ok")]_vars

\* C35: the hub and its producers never lock each other up.  Whenever the
\* dispatch loop is in the middle of handling an input, either it has a step to
\* take or the producer that holds vm.mu can complete its send and release it:
\* no producer waits on the full channel with the lock the loop needs, and
\* the loop never waits on a channel that only it receives from.
C35_HubAndProducersNeverStuck ==
    hubPc # "select" => ENABLED (HubNext \/ SendUnblock)

\* C36: whenever a session is active, the question it is about is the node the
\* presenter is on: a session is only started for the current node, and no
\* command that changes the current node leaves a session for another node
\* active.
C36_SessionQuestionIsCurrentNode ==
    votingActive => currentQuestion = currentNode

\* C37: the position stays inside the graph: the current node and every key
\* on the history stack is a node of the story, whatever advances (successful
\* or failed), go-backs and restarts have been served.
C37_PositionInsideGraph ==
    /\ currentNode \in DOMAIN Story
    /\ \A i \in 1..Len(history) : history[i] \in DOMAIN Story

\* a go-back has returned to the decision node after two advances from the
\* start, the second of which either moved on or failed
C37_Witness ==
    /\ srvLast = Op("handleGoBack", "ok")
    /\ currentNode = "q1"
    /\ history = <<StartNode>>

\* C38: the tally of a finished question persists.  While q is not the
\* question of the active session, GetResults(q) returns the same counts after
\* every step that is not ResetVoting, ClearQuestionVotes(q) or a new start
\* for q: votes and sessions for other questions do not touch it.
C38_FinishedTalliesPersist ==
    [][\A q \in TallyQuestions :
         (/\ q \in DOMAIN votes
          /\ ~(votingActive /\ currentQuestion = q)
          /\ ~ResetVoting
          /\ ~ClearQuestionVotes(q)
          /\ ~\E o \in OptionLists : StartVotingWithChoices(q, o))
         => GetResults(votes', q) = GetResults(votes, q)]_vars

\* the session for q1 has ended with one vote for a, a session for q2 was
\* started after it and has taken a vote, and q1 still shows its final counts
C38_Witness ==
    /\ gen = 2
    /\ endLog[1] # <<>>
    /\ votingActive
    /\ currentQuestion = "q2"
    /\ lastOp.op = "SubmitVote"
    /\ votes["q2"]["b"] = 1
    /\ GetResults(votes, "q1") = [a |-> 1, b |-> 0]

\* C39: once the voting_ended or the voting_reset of a session has been
\* enqueued, no vote_update of that session is enqueued any more: a
\* vote_update enters the channel only for an active session whose
\* voting_started is in and whose voting_ended is not, a voting_ended or
\* voting_reset enters it only with the session closed, and a closed vote
\* manager becomes active again only by the start of a new session.
C39_NoUpdateAfterEnd ==
    [][/\ (EnqueueStep /\ Enqueued'.type = "vote_update")
          => /\ votingActive /\ votingActive'
             /\ gen' \in startedEnq
             /\ endLog'[gen'] = <<>>
       /\ (EnqueueStep /\ Enqueued'.type \in {"voting_ended", "voting_reset"})
          => ~votingActive'
       /\ (~votingActive /\ votingActive') => gen' = gen + 1]_vars

\* the first session was ended and its voting_ended went out; the second
\* session was started after it and its vote_update has just been enqueued
C39_Witness ==
    /\ gen = 2
    /\ endLog[1] # <<>>
    /\ endLog[2] = <<>>
    /\ votingActive
    /\ lastOp.op = "SubmitVote"
    /\ blocked = <<>> /\ broadcast # <<>>
    /\ Enqueued.type = "vote_update"

\* C40: an advance followed by a go-back is a round trip on the position.  The
\* go-back served right after a successful advance succeeds, and it leaves the
\* current node and the history that the advance found.
C40_AdvanceGoBackRoundTrip ==
    /\ [][(handleGoBack /\ srvLast = Op("handleAdvance", "ok"))
           => srvLast' = Op("handleGoBack", "ok")]_vars
    /\ [](srvLast = Op("handleGoBack", "ok") /\ advancedFrom # <<>>
           => /\ currentNode = advancedFrom[1].node
              /\ history = advancedFrom[1].history)

\* the presenter advanced from the decision node by a choice and went back at
\* once: the position is the decision node with the start on the history
C40_Witness ==
    /\ srvLast = Op("handleGoBack", "ok")
    /\ srvPc = "idle"
    /\ advancedFrom = <<[node |-> "q1", history |-> <<StartNode>>]>>
    /\ currentNode = "q1"
    /\ history = <<StartNode>>
====
